---- MODULE Spec2Model ----
(***************************************************************************)
(* Model of the image batch tool (src/app.js): the quality search of       *)
(* ImageProcessor.compress, ImageProcessor.process and the batch loop of   *)
(* BatchProcessor.processAll.                                              *)
(*                                                                         *)
(* Qualities are exact rationals written as numerators over 10240, so that *)
(* 0.1 is 1024, 1.0 is 10240 and every midpoint of the 10 search rounds is *)
(* an integer (10240 - 1024 = 9 * 2^10).                                   *)
(*                                                                         *)
(* Control states named "await_*" are the suspension points of the code    *)
(* (an image load or an encoder invocation is outstanding); an action that *)
(* leaves such a state is the callback together with the synchronous code  *)
(* that follows it up to the next suspension point.                        *)
(***************************************************************************)
EXTENDS Integers, Sequences, FiniteSets, TLC

VARIABLES
    images,       \* processAll: the images argument (AppState.images)
    userConfig,   \* processAll: the userConfig argument
    results,      \* processAll: const results = []
    total,        \* processAll: const total = images.length
    i,            \* processAll: loop index
    bpc,          \* processAll: control state
    returned,     \* processAll: returned array (<<>> until it returns)
    log,          \* history: progress emissions and pipeline start/settle events
    views,        \* history: the content of results when each emission was made
    ppc,          \* process: control state
    outcome,      \* process: settled value (result) or thrown error
    canvas,       \* process: canvas made by resize (carries its encoder)
    format,       \* compress: format argument
    maxSizeKB,    \* compress: maxSizeKB argument
    cpc,          \* compress: control state
    minQuality,   \* compress: let minQuality
    maxQuality,   \* compress: let maxQuality
    bestBlob,     \* compress: let bestBlob
    round,        \* compress: loop counter of the search (i in the source)
    request,      \* compress: quality argument of the outstanding toBlob call
    encodes,      \* history: qualities of the encoder invocations of this call
    retBlob,      \* compress: returned blob
    zfn,          \* ZipExporter: which of createZip / createZipWithFolders runs
    zin,          \* ZipExporter: the argument, a list of (folderName, results)
    zpc,          \* ZipExporter: control state
    zipFolders,   \* JSZip: the folders of the archive
    zipFiles,     \* JSZip: the files of the archive, by (folder, name)
    afile,        \* analyze: the file argument
    aimg,         \* analyze: what decoding the file gives the Image element
    apc,          \* analyze: control state
    aout,         \* analyze: settled value (info) or rejection
    urls,         \* URL: the object URLs created and not revoked
    urlCount,     \* URL: how many object URLs were created
    aurl,         \* analyze: const previewUrl
    rimage,       \* resize: the image argument
    rpc,          \* resize: control state
    vfile,        \* isValidImageFile: the file argument
    vpc,          \* isValidImageFile: control state
    vout,         \* isValidImageFile: returned value
    isProcessing,       \* AppState.isProcessing
    canDownload,        \* AppState.canDownload
    appResults,         \* AppState.results
    resultsByFolder,    \* AppState.resultsByFolder: (folder, results) in
                        \* insertion order, a result being its position in
                        \* the results array of the running processAll
    folderMap,          \* AppState.folderMap: (folder, images) in insertion
                        \* order, an image being its position in images
    processBtnDisabled, \* DOM: processBtn.disabled
    downloadBtnDisabled, \* DOM: downloadBtn.disabled
    statusOf,           \* DOM: the status shown for each image of the list
    progressText,       \* DOM: completed and total shown by updateProgress
    resultFolder,       \* the folderPath property written on each result
    spc,                \* startProcessing: control state
    dpc,                \* downloadZip: control state
    alerts,             \* history: how many times alert was called
    downloads,          \* history: how many archives were handed to download
    fpc,                \* processFileList: control state
    fileList,           \* processFileList: the fileList argument
    validFiles,         \* processFileList: const validFiles
    fidx,               \* processFileList: position in validFiles
    analyzeLog,         \* history: the files analyze was called on
    imports,            \* history: how many calls of processFileList
    importBase,         \* history: the length of images when the last call
                        \* of processFileList began
    batches             \* history: how many calls of startProcessing

batchVars == <<images, userConfig, results, total, i, bpc, returned, log,
               views>>
procVars == <<ppc, outcome, canvas>>
compVars == <<format, maxSizeKB, cpc, minQuality, maxQuality, bestBlob, round,
              request, encodes, retBlob>>
zipVars == <<zfn, zin, zpc, zipFolders, zipFiles>>
\* what the pipeline (processAll, process, compress) leaves alone
anaVars == <<afile, aimg, apc, aout, urls, urlCount, aurl>>
resVars == <<rimage, rpc>>
valVars == <<vfile, vpc, vout>>
\* what the onProgress callback of startProcessing writes
cbVars == <<resultsByFolder, statusOf, progressText, resultFolder>>
flagVars == <<isProcessing, canDownload, appResults, processBtnDisabled,
              downloadBtnDisabled, spc, batches>>
importVars == <<folderMap, fpc, fileList, validFiles, fidx, analyzeLog,
                imports, importBase>>
exportVars == <<dpc, alerts, downloads>>
appVars == <<cbVars, flagVars, importVars, exportVars>>
notPipeline == <<zipVars, anaVars, resVars, valVars, appVars>>
vars == <<batchVars, procVars, compVars, zipVars, anaVars, resVars, valVars,
          appVars>>

----------------------------------------------------------------------------
(* Bounds and input sets *)

MaxImages == 2

\* quality numerators: 0.1 and 1.0 over 10240
FloorQuality == 1024
TopQuality == 10240
\* the loop bound of line 212 one short
SearchRoundsShort == 10 - 1
SearchRounds == 10
\* "no quality argument" of the toBlob call for image/png
NoQuality == 0

DefaultMaxSizeKB == 800

PNG == "image/png"
JPEG == "image/jpeg"
WEBP == "image/webp"

NullBlob == [isNull |-> TRUE, size |-> 0]
Blob(n) == [isNull |-> FALSE, size |-> n]

\* budgets (KB) handed to compress when it is exercised on its own
BudgetsKB == {1, 2}
\* sizes an unconstrained encoder may produce: around both budgets
FreeSizes == {1023, 1024, 1025, 2048, 2049}
\* base sizes of the proportional encoder (0: the canvas has no pixels)
EncBases == {0, 1000, 1500, 3000, 10240, 15000, 30000}

\* An encoder is the behaviour of canvas.toBlob for one canvas:
\*  "free":   any blob, or none, at every quality except the floor quality,
\*            where it yields floorBlob (image/png ignores quality and yields
\*            floorBlob too);
\*  "linear": size = floor(base * quality), base for image/png, as in the
\*            size-controlled canvas of the tests; no blob when base = 0 or
\*            at the quality nullAt.
FreeEncoders ==
    {[kind |-> "free", base |-> 0, nullAt |-> NoQuality, floorBlob |-> b] :
        b \in {Blob(n) : n \in FreeSizes} \cup {NullBlob}}
LinearEncoders ==
    {[kind |-> "linear", base |-> b, nullAt |-> q, floorBlob |-> NullBlob] :
        b \in EncBases, q \in {NoQuality, FloorQuality, 5632, TopQuality}}
Encoders == FreeEncoders \cup LinearEncoders

LinearBlob(enc, fmt, q) ==
    IF enc.base = 0 THEN NullBlob
    ELSE IF fmt = PNG THEN Blob(enc.base)
    ELSE IF q = enc.nullAt THEN NullBlob
    ELSE Blob((enc.base * q) \div TopQuality)

\* the blobs canvas.toBlob(cb, fmt, q) may deliver
ToBlob(enc, fmt, q) ==
    IF enc.kind = "linear" THEN {LinearBlob(enc, fmt, q)}
    ELSE IF fmt = PNG \/ q = FloorQuality THEN {enc.floorBlob}
    ELSE {Blob(n) : n \in FreeSizes} \cup {NullBlob}

----------------------------------------------------------------------------
(* ImageProcessor.compress *)

MaxSizeBytes == maxSizeKB * 1024

\* the comparison of line 207 made strict
FitsStrict(blob, budget) == blob.size < budget

\* lines 207, 218: blob.size <= maxSizeBytes
Fits(blob, budget) == blob.size <= budget

\* the midpoint of line 213 taken a third of the way up
MidQualityThird(lo, hi) == lo + (hi - lo) \div 3

\* line 213: (minQuality + maxQuality) / 2
MidQuality(lo, hi) == (lo + hi) \div 2

\* the test of line 227 without its size half
NeedsFloorNullOnly(blob, budget) == blob.isNull

\* the last encode of line 229 made whatever the search found
NeedsFloorAlways(blob, budget) == TRUE

\* line 227: if (!bestBlob || bestBlob.size > maxSizeBytes)
NeedsFloor(blob, budget) == blob.isNull \/ blob.size > budget

\* the test of line 191 against a misspelt type
IsLosslessMisspelt(fmt) == fmt = "image/x-png"

\* line 191: format === 'image/png'
IsLossless(fmt) == fmt = PNG

\* the last encode of line 229 made at maxQuality
FloorRequestHi(lo, hi) == hi

\* the last encode of line 229 made at 10 (a percentage) instead of 0.1
FloorRequestPercent(lo, hi) == 100 * lo

\* line 229: the quality of the last encode is minQuality
FloorRequest(lo, hi) == lo

\* lines 187-205: entry up to the first toBlob call
CompressEnter ==
    /\ cpc = "entry"
    /\ IF IsLossless(format)
       THEN /\ cpc' = "await_png"
            /\ request' = NoQuality
            /\ encodes' = <<NoQuality>>
            /\ UNCHANGED <<minQuality, maxQuality, bestBlob>>
       ELSE /\ minQuality' = FloorQuality
            /\ maxQuality' = TopQuality
            /\ bestBlob' = NullBlob
            /\ cpc' = "await_first"
            /\ request' = TopQuality
            /\ encodes' = <<TopQuality>>
    /\ UNCHANGED <<format, maxSizeKB, round, retBlob, canvas>>

\* lines 191-195: the single image/png encode resolves the promise with the blob
CompressPng ==
    /\ cpc = "await_png"
    /\ \E blob \in ToBlob(canvas.enc, format, request) :
          /\ retBlob' = blob
          /\ cpc' = "returned"
    /\ UNCHANGED <<format, maxSizeKB, minQuality, maxQuality, bestBlob, round,
                   request, encodes, canvas>>

\* lines 203-216: the quality-1.0 encode, return it if it fits, else start round 0
CompressFirst ==
    /\ cpc = "await_first"
    /\ \E blob \in ToBlob(canvas.enc, format, request) :
          /\ bestBlob' = blob
          /\ IF blob.isNull
             THEN \* bestBlob.size on null: TypeError
                  /\ cpc' = "threw"
                  /\ UNCHANGED <<round, request, encodes, retBlob>>
             ELSE IF Fits(blob, MaxSizeBytes)
             THEN /\ retBlob' = blob
                  /\ cpc' = "returned"
                  /\ UNCHANGED <<round, request, encodes>>
             ELSE /\ round' = 0
                  /\ request' = MidQuality(minQuality, maxQuality)
                  /\ encodes' = Append(encodes, MidQuality(minQuality, maxQuality))
                  /\ cpc' = "await_round"
                  /\ UNCHANGED retBlob
    /\ UNCHANGED <<format, maxSizeKB, minQuality, maxQuality, canvas>>

\* lines 214-231: one search round, then the next round, the floor encode or return
CompressRound ==
    /\ cpc = "await_round"
    /\ \E blob \in ToBlob(canvas.enc, format, request) :
        IF blob.isNull
        THEN \* blob.size on null: TypeError
             /\ cpc' = "threw"
             /\ UNCHANGED <<minQuality, maxQuality, bestBlob, round, request,
                            encodes, retBlob>>
        ELSE LET fit == Fits(blob, MaxSizeBytes)
                 lo == IF fit THEN request ELSE minQuality
                 hi == IF fit THEN maxQuality ELSE request
                 best == IF fit THEN blob ELSE bestBlob
             IN /\ minQuality' = lo
                /\ maxQuality' = hi
                /\ bestBlob' = best
                /\ round' = round + 1
                /\ IF round + 1 < SearchRounds
                   THEN /\ request' = MidQuality(lo, hi)
                        /\ encodes' = Append(encodes, MidQuality(lo, hi))
                        /\ cpc' = "await_round"
                        /\ UNCHANGED retBlob
                   ELSE IF NeedsFloor(best, MaxSizeBytes)
                   THEN /\ request' = FloorRequest(lo, hi)
                        /\ encodes' = Append(encodes, FloorRequest(lo, hi))
                        /\ cpc' = "await_floor"
                        /\ UNCHANGED retBlob
                   ELSE /\ retBlob' = best
                        /\ cpc' = "returned"
                        /\ UNCHANGED <<request, encodes>>
    /\ UNCHANGED <<format, maxSizeKB, canvas>>

\* lines 228-233: the encode at minQuality is returned whatever it is
CompressFloor ==
    /\ cpc = "await_floor"
    /\ \E blob \in ToBlob(canvas.enc, format, request) :
          /\ bestBlob' = blob
          /\ retBlob' = blob
          /\ cpc' = "returned"
    /\ UNCHANGED <<format, maxSizeKB, minQuality, maxQuality, round, request,
                   encodes, canvas>>

Canvas(w, h, enc) == [width |-> w, height |-> h, enc |-> enc]
NoCanvas == Canvas(0, 0, [kind |-> "linear", base |-> 0, nullAt |-> NoQuality,
                          floorBlob |-> NullBlob])

\* no archive is being built
ZipIdle ==
    /\ zfn = "none"
    /\ zin = <<>>
    /\ zpc = "idle"
    /\ zipFolders = {}
    /\ zipFiles = <<>>

\* no file is being analyzed
AnalyzeIdle ==
    /\ afile = [name |-> <<>>, type |-> "", size |-> 0]
    /\ aimg = [decodable |-> FALSE, naturalWidth |-> 0, naturalHeight |-> 0]
    /\ apc = "idle"
    /\ aout = [kind |-> "none"]
    /\ urls = {}
    /\ urlCount = 0
    /\ aurl = 0

\* resize is not being called on its own
ResizeIdle ==
    /\ rimage = [naturalWidth |-> 0, naturalHeight |-> 0]
    /\ rpc = "idle"

\* a file value: a File object, or no object at all (null, undefined)
Present(file) == [present |-> TRUE, file |-> file]
Absent == [present |-> FALSE,
           file |-> [name |-> <<>>, type |-> "undefined", size |-> 0]]

\* isValidImageFile is not being called on its own
ValidateIdle ==
    /\ vfile = Absent
    /\ vpc = "idle"
    /\ vout = FALSE

\* AppState as declared (lines 347-355), an empty image list in the
\* document, both buttons disabled, and no handler running
AppIdle ==
    /\ isProcessing = FALSE
    /\ canDownload = FALSE
    /\ appResults = <<>>
    /\ resultsByFolder = <<>>
    /\ folderMap = <<>>
    /\ processBtnDisabled = TRUE
    /\ downloadBtnDisabled = TRUE
    /\ statusOf = <<>>
    /\ progressText = <<0, 0>>
    /\ resultFolder = <<>>
    /\ spc = "idle"
    /\ dpc = "idle"
    /\ alerts = 0
    /\ downloads = 0
    /\ fpc = "idle"
    /\ fileList = <<>>
    /\ validFiles = <<>>
    /\ fidx = 0
    /\ analyzeLog = <<>>
    /\ imports = 0
    /\ importBase = 0
    /\ batches = 0

----------------------------------------------------------------------------
(* CONFIG, lines 12-21 *)

\* CONFIG.maxWidth one pixel off
TargetWidthOff == 750 + 1
TargetWidth == 750
DefaultFormat == JPEG
DefaultExtension == <<".", "j", "p", "g">>

\* a missing property of a JavaScript object, and the falsy strings
Undefined == "undefined"
Truthy(s) == s # Undefined /\ s # ""

----------------------------------------------------------------------------
(* ImageProcessor.process *)

\* line 103 reading CONFIG only, as before userConfig existed
OutputExtensionDefaultOnly(cfg) == DefaultExtension

\* a || b on the fields of userConfig: "", 0 and <<>> stand for an absent field
OutputFormat(cfg) == IF cfg.format # "" THEN cfg.format ELSE DefaultFormat
MaxSizeKBOf(cfg) == IF cfg.maxSizeKB # 0 THEN cfg.maxSizeKB ELSE DefaultMaxSizeKB
OutputExtension(cfg) ==
    IF cfg.extension # <<>> THEN cfg.extension ELSE DefaultExtension

RECURSIVE LastIndexOfDot(_, _)
\* name.lastIndexOf('.') with 1-based positions, 0 when there is no dot
LastIndexOfDot(name, n) ==
    IF n = 0 THEN 0
    ELSE IF name[n] = "." THEN n
    ELSE LastIndexOfDot(name, n - 1)

\* originalName.substring(0, originalName.lastIndexOf('.')) || originalName
BaseName(name) ==
    LET d == LastIndexOfDot(name, Len(name))
        cut == IF d = 0 THEN <<>> ELSE SubSeq(name, 1, d - 1)
    IN IF cut # <<>> THEN cut ELSE name

(* The Numbers of JavaScript are IEEE 754 doubles: a positive Number is a  *)
(* sequence of binary digits, most significant first, and a scale, its     *)
(* value being digits * 2^(-scale); every operation rounds its exact       *)
(* result to 53 significant digits, a tie going to the even neighbour.     *)
\* binary digits of a natural number, most significant first (<<>> for 0)
RECURSIVE BinaryDigits(_)
BinaryDigits(n) ==
    IF n = 0 THEN <<>> ELSE Append(BinaryDigits(n \div 2), n % 2)

\* the natural number of the first k digits (short sequences only)
RECURSIVE DigitsValue(_, _)
DigitsValue(bits, k) ==
    IF k = 0 THEN 0 ELSE 2 * DigitsValue(bits, k - 1) + bits[k]

\* the digit sequence plus one
Increment(bits) ==
    IF \A k \in 1..Len(bits) : bits[k] = 1
    THEN <<1>> \o [k \in 1..Len(bits) |-> 0]
    ELSE LET last == CHOOSE p \in 1..Len(bits) :
                        /\ bits[p] = 0
                        /\ \A k \in (p + 1)..Len(bits) : bits[k] = 1
         IN [k \in 1..Len(bits) |->
                IF k < last THEN bits[k] ELSE IF k = last THEN 1 ELSE 0]

\* round to nearest, ties to even: keep the digits, one more when the rest
\* is above half a unit (cmp = 1) or is half a unit (cmp = 0) and keep is odd
RoundNearestEven(keep, cmp) ==
    IF cmp = 1 \/ (cmp = 0 /\ keep[Len(keep)] = 1) THEN Increment(keep)
    ELSE keep

Compare(a, b) == IF a > b THEN 1 ELSE IF a = b THEN 0 ELSE 0 - 1

MantissaBits == 53

\* the remainder of the long division n / w after k digits of the fraction
RECURSIVE Remainder(_, _, _)
Remainder(n, w, k) ==
    IF k = 0 THEN n % w ELSE (2 * Remainder(n, w, k - 1)) % w

\* a Number of JavaScript (a positive double): digits * 2^(-scale)
\* n / w for integers 1 <= n, 1 <= w
NumberDivide(n, w) ==
    LET whole == BinaryDigits(n \div w)
        digit(k) == (2 * Remainder(n, w, k - 1)) \div w
        \* the leading zeros of the fraction when there is no whole part
        lead == IF whole # <<>> THEN 0
                ELSE CHOOSE z \in 0..40 :
                        digit(z + 1) = 1 /\ \A y \in 1..z : digit(y) = 0
        count == lead + MantissaBits - Len(whole)
        keep == whole \o [k \in 1..(count - lead) |-> digit(lead + k)]
    IN [digits |-> RoundNearestEven(keep, Compare(2 * Remainder(n, w, count), w)),
        scale |-> count]

\* the carry out of the k lowest digits of bits times h
RECURSIVE Carry(_, _, _)
Carry(bits, h, k) ==
    IF k = 0 THEN 0
    ELSE (bits[Len(bits) - k + 1] * h + Carry(bits, h, k - 1)) \div 2

\* digits times a small natural number h, exactly
Times(bits, h) ==
    BinaryDigits(Carry(bits, h, Len(bits)))
    \o [k \in 1..Len(bits) |->
          (bits[k] * h + Carry(bits, h, Len(bits) - k)) % 2]

\* 1 when some digit is 1
AnyOne(bits) == \E k \in 1..Len(bits) : bits[k] = 1

\* h * x for a natural number h >= 1 and a Number x, rounded to a Number
NumberTimes(h, x) ==
    LET exact == Times(x.digits, h)
        drop == IF Len(exact) > MantissaBits THEN Len(exact) - MantissaBits
                ELSE 0
        keep == SubSeq(exact, 1, Len(exact) - drop)
        rest == SubSeq(exact, Len(exact) - drop + 1, Len(exact))
        cmp == IF drop = 0 THEN 0 - 1
               ELSE IF rest[1] = 0 THEN 0 - 1
               ELSE IF AnyOne(Tail(rest)) THEN 1 ELSE 0
    IN [digits |-> RoundNearestEven(keep, cmp), scale |-> x.scale - drop]

\* Math.round(x) for a Number x with x.scale >= 0: the nearest integer, a
\* half going up
MathRound(x) ==
    LET whole == Len(x.digits) - x.scale
    IN IF whole < 0 THEN 0
       ELSE DigitsValue(x.digits, whole) + x.digits[whole + 1]

\* the height of a canvas clamped to maxHeight, as the unused parameter of
\* resize suggests
ResizeHeightClamped(w, h, targetWidth) ==
    IF (2 * h * targetWidth + w) \div (2 * w) > targetWidth THEN targetWidth
    ELSE (2 * h * targetWidth + w) \div (2 * w)

\* lines 160-166: ratio = targetWidth / width, then Math.round(height * ratio)
ResizeHeight(w, h, targetWidth) ==
    MathRound(NumberTimes(h, NumberDivide(targetWidth, w)))

\* line 111 without the format test
SkipFastAnyFormat(imageInfo, cfg) ==
    /\ ~imageInfo.needsProcessing
    /\ ~(imageInfo.size > MaxSizeKBOf(cfg) * 1024)

\* line 111
SkipFast(imageInfo, cfg) ==
    /\ ~imageInfo.needsProcessing
    /\ imageInfo.file.type = OutputFormat(cfg)
    /\ ~(imageInfo.size > MaxSizeKBOf(cfg) * 1024)

\* The result objects. A property the source leaves out of an object is
\* written as its falsy value: error Undefined on a result of process;
\* sizes 0 and outputFileName <<>> on the object built in the catch block.
SkipResult(imageInfo) ==
    [originalFile |-> imageInfo.file,
     processedBlob |-> Blob(imageInfo.file.size),
     finalWidth |-> imageInfo.width,
     finalHeight |-> imageInfo.height,
     finalSize |-> imageInfo.size,
     wasProcessed |-> FALSE,
     outputFileName |-> imageInfo.file.name,
     error |-> Undefined]

ProcessedResult(imageInfo, cfg, cv, blob) ==
    [originalFile |-> imageInfo.file,
     processedBlob |-> blob,
     finalWidth |-> cv.width,
     finalHeight |-> cv.height,
     finalSize |-> blob.size,
     wasProcessed |-> TRUE,
     outputFileName |-> BaseName(imageInfo.file.name) \o OutputExtension(cfg),
     error |-> Undefined]

\* what a rejected promise carries: the error event of the image element has
\* no message property; reading .size of null is a TypeError with a message
ErrorEvent == [message |-> Undefined]
TypeError == [message |-> "Cannot read properties of null (reading 'size')"]

Fulfilled(value) == [kind |-> "fulfilled", value |-> value, error |-> ErrorEvent]
Rejected(err) == [kind |-> "rejected", value |-> SkipResult(
                    [file |-> [name |-> <<>>, type |-> "", size |-> 0],
                     width |-> 0, height |-> 0, size |-> 0]),
                  error |-> err]
NoOutcome == [kind |-> "none", value |-> Rejected(ErrorEvent).value,
              error |-> ErrorEvent]

\* encoders of the canvases made while a batch runs
BatchEncoders ==
    {e \in LinearEncoders : /\ e.base \in {0, 1500, 10240, 30000}
                            /\ e.nullAt \in {NoQuality, FloorQuality, 5632}}

\* lines 100-128: the skip-fast path, or start loading the image element
ProcessEnter ==
    /\ ppc = "entry"
    /\ IF SkipFast(images[i + 1], userConfig)
       THEN /\ outcome' = Fulfilled(SkipResult(images[i + 1]))
            /\ ppc' = "settled"
       ELSE /\ ppc' = "await_load"
            /\ UNCHANGED outcome
    /\ UNCHANGED <<batchVars, canvas, compVars>>

\* lines 124-128 (img.onerror = reject): the image element fails to load
ImageError ==
    /\ ppc = "await_load"
    /\ outcome' = Rejected(ErrorEvent)
    /\ ppc' = "settled"
    /\ UNCHANGED <<batchVars, canvas, compVars>>

\* lines 124-134 (img.onload = resolve): resize, then call compress; the
\* canvas made has one of the given encoders
ImageLoadWith(encoders) ==
    /\ ppc = "await_load"
    /\ \E newHeight \in {ResizeHeight(images[i + 1].width,
                                       images[i + 1].height, TargetWidth)} :
          \E enc \in encoders :
             canvas' = Canvas(TargetWidth, newHeight, enc)
    /\ format' = OutputFormat(userConfig)
    /\ maxSizeKB' = MaxSizeKBOf(userConfig)
    /\ cpc' = "entry"
    /\ ppc' = "await_compress"
    /\ UNCHANGED <<batchVars, outcome, minQuality, maxQuality, bestBlob, round,
                   request, encodes, retBlob>>

ImageLoad == ImageLoadWith(BatchEncoders)

\* lines 134-149: compress has settled; build the result (blob.size of a null
\* blob is a TypeError)
ProcessFinish ==
    /\ ppc = "await_compress"
    /\ cpc \in {"returned", "threw"}
    /\ outcome' = IF cpc = "threw" \/ retBlob.isNull
                  THEN Rejected(TypeError)
                  ELSE Fulfilled(ProcessedResult(images[i + 1], userConfig,
                                                 canvas, retBlob))
    /\ ppc' = "settled"
    /\ cpc' = "idle"
    /\ UNCHANGED <<batchVars, canvas, format, maxSizeKB, minQuality, maxQuality,
                   bestBlob, round, request, encodes, retBlob>>

----------------------------------------------------------------------------
(* BatchProcessor.processAll *)

Emit(done, name) ==
    [kind |-> "emit", total |-> total, completed |-> done, current |-> name,
     index |-> 0, failed |-> FALSE]
Started(idx) ==
    [kind |-> "start", total |-> 0, completed |-> 0, current |-> <<>>,
     index |-> idx, failed |-> FALSE]
Settled(idx, failed) ==
    [kind |-> "settle", total |-> 0, completed |-> 0, current |-> <<>>,
     index |-> idx, failed |-> failed]

\* lines 264-269: the object pushed by the catch block
Sentinel(imageInfo, err) ==
    [originalFile |-> imageInfo.file,
     processedBlob |-> NullBlob,
     finalWidth |-> 0,
     finalHeight |-> 0,
     finalSize |-> 0,
     wasProcessed |-> FALSE,
     outputFileName |-> <<>>,
     error |-> err.message]

\* the push of lines 262 and 264 made at the front
PushedFront(rs, imageInfo, out) ==
    IF out.kind = "fulfilled"
    THEN <<out.value>> \o rs
    ELSE <<Sentinel(imageInfo, out.error)>> \o rs

\* lines 260-270 with an empty catch block
PushedNoCatch(rs, imageInfo, out) ==
    IF out.kind = "fulfilled" THEN Append(rs, out.value) ELSE rs

\* lines 260-270: results.push on either branch of the try
Pushed(rs, imageInfo, out) ==
    IF out.kind = "fulfilled"
    THEN Append(rs, out.value)
    ELSE Append(rs, Sentinel(imageInfo, out.error))

\* lines 253-258: onProgress before item idx
ProgressBefore(idx) == Emit(idx, images[idx + 1].file.name)

\* the emission of lines 272-277 made with completed: i
ProgressAfterStale(idx) == Emit(idx, images[idx + 1].file.name)

\* lines 272-277: onProgress after item idx
ProgressAfter(idx) == Emit(idx + 1, images[idx + 1].file.name)

\* lines 250-261 entered again while the previous call of process is pending
LoopItemReentrant ==
    /\ bpc \in {"loop", "await_process"}
    /\ i < Len(images)
    /\ log' = log \o <<ProgressBefore(i), Started(i)>>
    /\ views' = Append(views, results)
    /\ ppc' = "entry"
    /\ bpc' = "await_process"
    /\ UNCHANGED <<images, userConfig, results, total, i, returned, outcome,
                   canvas, compVars>>

\* lines 250-261: loop test, progress before the item, call process
LoopItem ==
    /\ bpc = "loop"
    /\ i < Len(images)
    /\ log' = log \o <<ProgressBefore(i), Started(i)>>
    /\ views' = Append(views, results)
    /\ ppc' = "entry"
    /\ bpc' = "await_process"
    /\ UNCHANGED <<images, userConfig, results, total, i, returned, outcome,
                   canvas, compVars>>

\* lines 250, 280: loop exit and return
LoopExit ==
    /\ bpc = "loop"
    /\ ~(i < Len(images))
    /\ returned' = results
    /\ bpc' = "done"
    /\ UNCHANGED <<images, userConfig, results, total, i, log, views, procVars,
                   compVars>>

\* lines 261-278 with the second onProgress inside the try block
AfterItemSilentFailure ==
    /\ bpc = "await_process"
    /\ ppc = "settled"
    /\ results' = Pushed(results, images[i + 1], outcome)
    /\ log' = IF outcome.kind = "rejected"
              THEN Append(log, Settled(i, TRUE))
              ELSE log \o <<Settled(i, FALSE), ProgressAfter(i)>>
    /\ views' = IF outcome.kind = "rejected"
                THEN views
                ELSE Append(views, results')
    /\ i' = i + 1
    /\ bpc' = "loop"
    /\ ppc' = "idle"
    /\ outcome' = NoOutcome
    /\ UNCHANGED <<images, userConfig, total, returned, canvas, compVars>>

\* lines 261-278: process has settled; push, progress after the item, i++
AfterItem ==
    /\ bpc = "await_process"
    /\ ppc = "settled"
    /\ results' = Pushed(results, images[i + 1], outcome)
    /\ log' = log \o <<Settled(i, outcome.kind = "rejected"), ProgressAfter(i)>>
    /\ views' = Append(views, results')
    /\ i' = i + 1
    /\ bpc' = "loop"
    /\ ppc' = "idle"
    /\ outcome' = NoOutcome
    /\ UNCHANGED <<images, userConfig, total, returned, canvas, compVars>>

----------------------------------------------------------------------------
(* processAll called on its own, as in the batch tests *)

File(name, type, size) == [name |-> name, type |-> type, size |-> size]
ImageInfo(file, w, h, needs) ==
    [file |-> file, width |-> w, height |-> h, size |-> file.size,
     needsProcessing |-> needs]

ImagePool ==
    {ImageInfo(File(<<"a", ".", "j", "p", "g">>, JPEG, 1000), 750, 500, FALSE),
     ImageInfo(File(<<"b", ".", "p", "n", "g">>, PNG, 3000), 1500, 1000, TRUE),
     ImageInfo(File(<<"c">>, WEBP, 900000), 750, 751, TRUE),
     ImageInfo(File(<<"d", ".", "j", "p", "e", "g">>, JPEG, 1500), 750, 750, FALSE),
     ImageInfo(File(<<".", "e">>, PNG, 2000), 750, 300, FALSE)}

ConfigPool ==
    {[format |-> "", maxSizeKB |-> 0, extension |-> <<>>],
     [format |-> JPEG, maxSizeKB |-> 1, extension |-> <<".", "j", "p", "g">>],
     [format |-> PNG, maxSizeKB |-> 2, extension |-> <<".", "p", "n", "g">>]}

SeqsUpTo(S, n) == UNION {[1..m -> S] : m \in 0..n}

InitBatch ==
    /\ images \in SeqsUpTo(ImagePool, MaxImages)
    /\ userConfig \in ConfigPool
    /\ results = <<>>
    /\ total = Len(images)
    /\ i = 0
    /\ bpc = "loop"
    /\ returned = <<>>
    /\ log = <<>>
    /\ views = <<>>
    /\ ppc = "idle"
    /\ outcome = NoOutcome
    /\ canvas = NoCanvas
    /\ format = ""
    /\ maxSizeKB = 0
    /\ cpc = "idle"
    /\ minQuality = 0
    /\ maxQuality = 0
    /\ bestBlob = NullBlob
    /\ round = 0
    /\ request = NoQuality
    /\ encodes = <<>>
    /\ retBlob = NullBlob
    /\ ZipIdle
    /\ AnalyzeIdle
    /\ ResizeIdle
    /\ ValidateIdle
    /\ AppIdle

NextBatch ==
    \/ LoopItem /\ UNCHANGED notPipeline
    \/ LoopExit /\ UNCHANGED notPipeline
    \/ AfterItem /\ UNCHANGED notPipeline
    \/ ProcessEnter /\ UNCHANGED notPipeline
    \/ ImageError /\ UNCHANGED notPipeline
    \/ ImageLoad /\ UNCHANGED notPipeline
    \/ ProcessFinish /\ UNCHANGED notPipeline
    \/ CompressEnter /\ UNCHANGED <<batchVars, ppc, outcome, notPipeline>>
    \/ CompressPng /\ UNCHANGED <<batchVars, ppc, outcome, notPipeline>>
    \/ CompressFirst /\ UNCHANGED <<batchVars, ppc, outcome, notPipeline>>
    \/ CompressRound /\ UNCHANGED <<batchVars, ppc, outcome, notPipeline>>
    \/ CompressFloor /\ UNCHANGED <<batchVars, ppc, outcome, notPipeline>>

SpecBatch == InitBatch /\ [][NextBatch]_vars

----------------------------------------------------------------------------
(* compress called on its own, as in the compress tests *)

InitCompress ==
    /\ images = <<>>
    /\ userConfig = [format |-> "", maxSizeKB |-> 0, extension |-> ""]
    /\ results = <<>>
    /\ total = 0
    /\ i = 0
    /\ bpc = "none"
    /\ returned = <<>>
    /\ log = <<>>
    /\ views = <<>>
    /\ ppc = "none"
    /\ outcome = [kind |-> "none"]
    /\ canvas \in {Canvas(750, 750, e) : e \in Encoders}
    /\ format \in {PNG, JPEG, WEBP}
    /\ maxSizeKB \in BudgetsKB
    /\ cpc = "entry"
    /\ minQuality = 0
    /\ maxQuality = 0
    /\ bestBlob = NullBlob
    /\ round = 0
    /\ request = NoQuality
    /\ encodes = <<>>
    /\ retBlob = NullBlob
    /\ ZipIdle
    /\ AnalyzeIdle
    /\ ResizeIdle
    /\ ValidateIdle
    /\ AppIdle

NextCompress ==
    \/ CompressEnter /\ UNCHANGED <<batchVars, ppc, outcome, notPipeline>>
    \/ CompressPng /\ UNCHANGED <<batchVars, ppc, outcome, notPipeline>>
    \/ CompressFirst /\ UNCHANGED <<batchVars, ppc, outcome, notPipeline>>
    \/ CompressRound /\ UNCHANGED <<batchVars, ppc, outcome, notPipeline>>
    \/ CompressFloor /\ UNCHANGED <<batchVars, ppc, outcome, notPipeline>>

SpecCompress == InitCompress /\ [][NextCompress]_vars

----------------------------------------------------------------------------
(* ZipExporter.createZip and createZipWithFolders, over JSZip *)

MaxFolders == 2
MaxGroup == 2

\* folder.file(name, content): the files of a JSZip are keyed by their path,
\* a second file of the same name in the same folder replaces the first
PutFile(files, folderName, fileName, blob) ==
    [p \in (DOMAIN files) \cup {<<folderName, fileName>>} |->
        IF p = <<folderName, fileName>> THEN blob ELSE files[p]]

\* lines 299, 320: result.outputFileName || result.originalFile.name
EntryName(result) ==
    IF result.outputFileName # <<>> THEN result.outputFileName
    ELSE result.originalFile.name

\* lines 297-301 without the test of processedBlob
AddResultUnguarded(files, folderName, result) ==
    PutFile(files, folderName, EntryName(result), result.processedBlob)

\* lines 297-301, 319-322: one result of the inner loop
AddResult(files, folderName, result) ==
    IF ~result.processedBlob.isNull
    THEN PutFile(files, folderName, EntryName(result), result.processedBlob)
    ELSE files

RECURSIVE AddResults(_, _, _, _)
\* lines 296-302, 318-323: for (const result of results), from position n on
AddResults(files, folderName, rs, n) ==
    IF n > Len(rs) THEN files
    ELSE AddResults(AddResult(files, folderName, rs[n]), folderName, rs, n + 1)

RECURSIVE AddGroups(_, _, _)
\* lines 315-324: for (const [folderName, results] of resultsByFolder)
AddGroups(files, groups, n) ==
    IF n > Len(groups) THEN files
    ELSE AddGroups(AddResults(files, groups[n].folderName, groups[n].results, 1),
                   groups, n + 1)

\* lines 292-304: createZip up to the call of generateAsync
CreateZip ==
    /\ zpc = "entry"
    /\ zfn = "createZip"
    /\ zipFolders' = {zin[1].folderName}
    /\ zipFiles' = AddResults(<<>>, zin[1].folderName, zin[1].results, 1)
    /\ zpc' = "await_generate"
    /\ UNCHANGED <<zfn, zin>>

\* lines 312-326: createZipWithFolders up to the call of generateAsync
CreateZipWithFolders ==
    /\ zpc = "entry"
    /\ zfn = "createZipWithFolders"
    /\ zipFolders' = {zin[n].folderName : n \in 1..Len(zin)}
    /\ zipFiles' = AddGroups(<<>>, zin, 1)
    /\ zpc' = "await_generate"
    /\ UNCHANGED <<zfn, zin>>

\* lines 304, 326: generateAsync resolves with the archive blob
ZipGenerated ==
    /\ zpc = "await_generate"
    /\ zpc' = "done"
    /\ UNCHANGED <<zfn, zin, zipFolders, zipFiles>>

\* lines 304, 326: generateAsync rejects and the rejection leaves the function
ZipFailed ==
    /\ zpc = "await_generate"
    /\ zpc' = "failed"
    /\ UNCHANGED <<zfn, zin, zipFolders, zipFiles>>

\* results handed to the exporter: a converted a.jpg, a converted a.png (same
\* output name), the result of the catch block for b.png, and a result
\* without outputFileName as the exporter tests build them
PoolImage(name, type) == ImageInfo(File(name, type, 3000), 1500, 1000, TRUE)
ResultPool ==
    {ProcessedResult(PoolImage(<<"a", ".", "j", "p", "g">>, JPEG),
                     [format |-> JPEG, maxSizeKB |-> 1,
                      extension |-> <<".", "j", "p", "g">>],
                     Canvas(750, 500, NoCanvas.enc), Blob(1000)),
     ProcessedResult(PoolImage(<<"a", ".", "p", "n", "g">>, PNG),
                     [format |-> JPEG, maxSizeKB |-> 1,
                      extension |-> <<".", "j", "p", "g">>],
                     Canvas(750, 500, NoCanvas.enc), Blob(900)),
     Sentinel(PoolImage(<<"b", ".", "p", "n", "g">>, PNG), TypeError),
     [SkipResult(PoolImage(<<"c", ".", "p", "n", "g">>, PNG))
        EXCEPT !.outputFileName = <<>>, !.wasProcessed = TRUE]}

FolderNames == {<<"x">>, <<"y">>}

Group(folderName, rs) == [folderName |-> folderName, results |-> rs]

\* a Map has one entry per key: the folder names of the groups are distinct
FolderLists ==
    {fs \in SeqsUpTo(FolderNames, MaxFolders) :
        \A m, n \in 1..Len(fs) : m # n => fs[m] # fs[n]}
ResultsByFolder ==
    UNION {{[n \in 1..Len(fs) |-> Group(fs[n], rs[n])] :
              rs \in [1..Len(fs) -> SeqsUpTo(ResultPool, MaxGroup)]} :
           fs \in FolderLists}

InitZip ==
    /\ images = <<>>
    /\ userConfig = [format |-> "", maxSizeKB |-> 0, extension |-> <<>>]
    /\ results = <<>>
    /\ total = 0
    /\ i = 0
    /\ bpc = "none"
    /\ returned = <<>>
    /\ log = <<>>
    /\ views = <<>>
    /\ ppc = "none"
    /\ outcome = NoOutcome
    /\ canvas = NoCanvas
    /\ format = ""
    /\ maxSizeKB = 0
    /\ cpc = "idle"
    /\ minQuality = 0
    /\ maxQuality = 0
    /\ bestBlob = NullBlob
    /\ round = 0
    /\ request = NoQuality
    /\ encodes = <<>>
    /\ retBlob = NullBlob
    /\ zfn \in {"createZip", "createZipWithFolders"}
    /\ zin \in ResultsByFolder
    /\ zfn = "createZip" => Len(zin) = 1
    /\ zpc = "entry"
    /\ zipFolders = {}
    /\ zipFiles = <<>>
    /\ AnalyzeIdle
    /\ ResizeIdle
    /\ ValidateIdle
    /\ AppIdle

\* what the exporter leaves alone
notZip == <<batchVars, procVars, compVars, anaVars, resVars, valVars,
           appVars>>

NextZip ==
    \/ CreateZip /\ UNCHANGED notZip
    \/ CreateZipWithFolders /\ UNCHANGED notZip
    \/ ZipGenerated /\ UNCHANGED notZip
    \/ ZipFailed /\ UNCHANGED notZip

SpecZip == InitZip /\ [][NextZip]_vars

----------------------------------------------------------------------------
(* ImageAnalyzer.analyze and needsProcessing *)

\* CONFIG.maxSizeBytes, line 15
ConfigMaxSizeBytes == DefaultMaxSizeKB * 1024

\* the rule of the design document: only an image that is too wide or too
\* heavy needs processing
NeedsProcessingOversize(info) ==
    info.width > TargetWidth \/ info.size > ConfigMaxSizeBytes

\* needsProcessing, lines 85-89
NeedsProcessing(info) ==
    info.width # TargetWidth \/ info.size > ConfigMaxSizeBytes

\* the object URL that URL.createObjectURL gives: one never given before
CreateObjectUrl(count) == count + 1

\* the info object of img.onload, lines 58-65, before line 66 sets its
\* needsProcessing field
AnalyzedInfo(file, img, previewUrl) ==
    [file |-> file,
     width |-> img.naturalWidth,
     height |-> img.naturalHeight,
     size |-> file.size,
     previewUrl |-> previewUrl,
     needsProcessing |-> FALSE]

\* analyze up to the return of the promise: lines 54, 55 and 74
AnalyzeEnter ==
    /\ apc = "entry"
    /\ aurl' = CreateObjectUrl(urlCount)
    /\ urlCount' = urlCount + 1
    /\ urls' = urls \cup {aurl'}
    /\ apc' = "await_image"
    /\ UNCHANGED <<afile, aimg, aout>>

\* img.onload, lines 57-68
AnalyzeOnload ==
    /\ apc = "await_image"
    /\ aimg.decodable
    /\ LET info == AnalyzedInfo(afile, aimg, aurl)
       IN aout' = [kind |-> "fulfilled",
                   value |-> [info EXCEPT !.needsProcessing =
                                              NeedsProcessing(info)]]
    /\ apc' = "settled"
    /\ UNCHANGED <<afile, aimg, urls, urlCount, aurl>>

\* img.onerror without line 71
AnalyzeOnerrorLeaky ==
    /\ apc = "await_image"
    /\ ~aimg.decodable
    /\ aout' = [kind |-> "rejected"]
    /\ apc' = "settled"
    /\ UNCHANGED <<afile, aimg, urls, urlCount, aurl>>

\* img.onerror, lines 70-73
AnalyzeOnerror ==
    /\ apc = "await_image"
    /\ ~aimg.decodable
    /\ urls' = urls \ {aurl}
    /\ aout' = [kind |-> "rejected"]
    /\ apc' = "settled"
    /\ UNCHANGED <<afile, aimg, urlCount, aurl>>

\* widths, heights and byte sizes around the thresholds of CONFIG
Widths == {1, 749, 750, 751, 1500}
Heights == {1, 750, 5000}
ByteSizes == {0, 819199, 819200, 819201, 2097152}

DecodedImages ==
    {[decodable |-> TRUE, naturalWidth |-> w, naturalHeight |-> h] :
        w \in Widths, h \in Heights}
    \cup {[decodable |-> FALSE, naturalWidth |-> 0, naturalHeight |-> 0]}

InitAnalyze ==
    /\ images = <<>>
    /\ userConfig = [format |-> "", maxSizeKB |-> 0, extension |-> <<>>]
    /\ results = <<>>
    /\ total = 0
    /\ i = 0
    /\ bpc = "none"
    /\ returned = <<>>
    /\ log = <<>>
    /\ views = <<>>
    /\ ppc = "none"
    /\ outcome = NoOutcome
    /\ canvas = NoCanvas
    /\ format = ""
    /\ maxSizeKB = 0
    /\ cpc = "idle"
    /\ minQuality = 0
    /\ maxQuality = 0
    /\ bestBlob = NullBlob
    /\ round = 0
    /\ request = NoQuality
    /\ encodes = <<>>
    /\ retBlob = NullBlob
    /\ ZipIdle
    /\ afile \in {File(<<"a", ".", "j", "p", "g">>, JPEG, s) : s \in ByteSizes}
    /\ aimg \in DecodedImages
    /\ apc = "entry"
    /\ aout = [kind |-> "none"]
    /\ urls = {}
    /\ urlCount = 0
    /\ aurl = 0
    /\ ResizeIdle
    /\ ValidateIdle
    /\ AppIdle

\* what analyze leaves alone
notAnalyze == <<batchVars, procVars, compVars, zipVars, resVars, valVars,
               appVars>>

NextAnalyze ==
    \/ AnalyzeEnter /\ UNCHANGED notAnalyze
    \/ AnalyzeOnload /\ UNCHANGED notAnalyze
    \/ AnalyzeOnerror /\ UNCHANGED notAnalyze

SpecAnalyze == InitAnalyze /\ [][NextAnalyze]_vars

----------------------------------------------------------------------------
(* ImageProcessor.resize called on its own, as in the resize tests *)

\* processAll, process and compress are not running
PipelineIdle ==
    /\ images = <<>>
    /\ userConfig = [format |-> "", maxSizeKB |-> 0, extension |-> <<>>]
    /\ results = <<>>
    /\ total = 0
    /\ i = 0
    /\ bpc = "none"
    /\ returned = <<>>
    /\ log = <<>>
    /\ views = <<>>
    /\ ppc = "none"
    /\ outcome = NoOutcome
    /\ canvas = NoCanvas
    /\ format = ""
    /\ maxSizeKB = 0
    /\ cpc = "idle"
    /\ minQuality = 0
    /\ maxQuality = 0
    /\ bestBlob = NullBlob
    /\ round = 0
    /\ request = NoQuality
    /\ encodes = <<>>
    /\ retBlob = NullBlob

\* resize(image, targetWidth, maxHeight), lines 159-178 (maxHeight is unused)
Resize ==
    /\ rpc = "entry"
    /\ canvas' = Canvas(TargetWidth,
                        ResizeHeight(rimage.naturalWidth, rimage.naturalHeight,
                                     TargetWidth),
                        NoCanvas.enc)
    /\ rpc' = "returned"
    /\ UNCHANGED <<rimage, batchVars, ppc, outcome, compVars>>

\* intrinsic sizes: the sizes of the resize tests and sizes around them
ImageWidths == {1, 28, 36, 188, 500, 749, 750, 751, 1500, 2000, 3000, 5000}
ImageHeights == {1, 7, 195, 400, 750, 751, 1000, 1500, 3000, 5000}

InitResize ==
    /\ PipelineIdle
    /\ ZipIdle
    /\ AnalyzeIdle
    /\ rimage \in {[naturalWidth |-> w, naturalHeight |-> h] :
                      w \in ImageWidths, h \in ImageHeights}
    /\ rpc = "entry"
    /\ ValidateIdle
    /\ AppIdle

NextResize == Resize /\ UNCHANGED <<zipVars, anaVars, valVars, appVars>>

SpecResize == InitResize /\ [][NextResize]_vars

----------------------------------------------------------------------------
(* FileValidator.isValidImageFile called on its own *)

\* CONFIG.supportedTypes, line 16
SupportedTypes == {"image/png", "image/jpeg", "image/webp", "image/avif"}

\* lines 30-35 accepting every type that names an image
IsValidImageFileLoose(arg) ==
    IF ~arg.present \/ ~Truthy(arg.file.type) THEN FALSE
    ELSE arg.file.type \in {"image/png", "image/jpeg", "image/webp",
                            "image/avif", "image/gif", "image/jpg"}

\* isValidImageFile, lines 30-35
IsValidImageFile(arg) ==
    IF ~arg.present \/ ~Truthy(arg.file.type) THEN FALSE
    ELSE arg.file.type \in SupportedTypes

Validate ==
    /\ vpc = "entry"
    /\ vout' = IsValidImageFile(vfile)
    /\ vpc' = "returned"
    /\ UNCHANGED vfile

\* declared types: the four of CONFIG, none, the empty one and others
DeclaredTypes ==
    SupportedTypes \cup {"undefined", "", "image/gif", "IMAGE/PNG",
                         "image/jpg", "text/plain", "image/png "}
FileNames == {<<"a", ".", "j", "p", "g">>, <<"b", ".", "p", "n", "g">>,
              <<".", "e">>}

InitValidate ==
    /\ PipelineIdle
    /\ ZipIdle
    /\ AnalyzeIdle
    /\ ResizeIdle
    /\ vfile \in {Absent} \cup {Present(File(n, t, z)) :
                                   n \in FileNames, t \in DeclaredTypes,
                                   z \in {0, 12}}
    /\ vpc = "entry"
    /\ vout = FALSE
    /\ AppIdle

NextValidate ==
    Validate /\ UNCHANGED <<batchVars, procVars, compVars, zipVars, anaVars,
                            resVars, appVars>>

SpecValidate == InitValidate /\ [][NextValidate]_vars

----------------------------------------------------------------------------
(* The application: AppState and UIController.  A handler runs from an     *)
(* event (a click, a drop, the load of an image, the callback of toBlob,   *)
(* the end of generateAsync) to its next await of such an event; the       *)
(* continuations of promises that are already settled run before any other *)
(* event is handled.                                                       *)

MaxImports == 2
MaxBatches == 2
MaxDownloads == 2

\* processAll is waiting for the load of an image or for an encoder
BatchSuspended ==
    \/ ppc = "await_load"
    \/ /\ ppc = "await_compress"
       /\ cpc \in {"await_png", "await_first", "await_round", "await_floor"}

\* every handler that has begun is waiting for an event: the next event can
\* be handled
Quiescent ==
    /\ spc = "idle" \/ BatchSuspended
    /\ fpc = "idle" \/ apc = "await_image"
    /\ dpc = "idle" \/ zpc = "await_generate"

\* updateButtons with a process button that follows the image list only
UpdateButtonsIgnoringRun(imgs, processing, downloadable) ==
    /\ processBtnDisabled' = (Len(imgs) = 0)
    /\ downloadBtnDisabled' = ~downloadable

\* updateButtons, lines 587-590
UpdateButtons(imgs, processing, downloadable) ==
    /\ processBtnDisabled' = (Len(imgs) = 0 \/ processing)
    /\ downloadBtnDisabled' = ~downloadable

\* lines 505-509 and 624-630: map.get(key).push(item), after a
\* map.set(key, []) when the key is new
Grouped(groups, key, item) ==
    IF \E n \in 1..Len(groups) : groups[n].folderName = key
    THEN [n \in 1..Len(groups) |->
            IF groups[n].folderName = key
            THEN Group(key, Append(groups[n].results, item))
            ELSE groups[n]]
    ELSE Append(groups, Group(key, <<item>>))

\* a file handed to processFileList: the File, the folder it came from, and
\* what decoding its bytes gives
Entry(file, folderPath, img) ==
    [file |-> file, folderPath |-> folderPath, img |-> img]
Decoded(w, h) ==
    [decodable |-> TRUE, naturalWidth |-> w, naturalHeight |-> h]
Undecodable == [decodable |-> FALSE, naturalWidth |-> 0, naturalHeight |-> 0]

\* lines 486-492 keeping every file
AllFiles(list) == list

\* lines 486-492: the files that pass isValidImageFile, in their order
ValidFiles(list) ==
    SelectSeq(list, LAMBDA e : IsValidImageFile(Present(e.file)))

\* lines 500-503: the record of analyze with its id, status and folderPath;
\* the id, made of the time and a random string, is as unique as the number of
\* the preview URL
AppImage(info, folderPath) ==
    [file |-> info.file,
     width |-> info.width,
     height |-> info.height,
     size |-> info.size,
     previewUrl |-> info.previewUrl,
     needsProcessing |-> info.needsProcessing,
     id |-> info.previewUrl,
     status |-> IF info.needsProcessing THEN "pending" ELSE "skipped",
     folderPath |-> folderPath]

\* line 500: the call ImageAnalyzer.analyze(file)
CallAnalyze(entry) ==
    /\ afile' = entry.file
    /\ aimg' = entry.img
    /\ apc' = "entry"
    /\ aout' = [kind |-> "none"]
    /\ UNCHANGED <<urls, urlCount, aurl>>

\* processFileList, lines 482-500: the validation loop and the first turn of
\* the analysis loop up to the call of analyze (lines 518, 519 when no file
\* is valid)
ImportStart(lists) ==
    /\ Quiescent
    /\ fpc = "idle"
    /\ imports < MaxImports
    /\ \E fl \in lists :
          /\ Len(images) + Len(ValidFiles(fl)) <= MaxImages
          /\ fileList' = fl
          /\ validFiles' = ValidFiles(fl)
          /\ IF ValidFiles(fl) = <<>>
             THEN /\ UpdateButtons(images, isProcessing, canDownload)
                  /\ fidx' = 0
                  /\ analyzeLog' = <<>>
                  /\ UNCHANGED <<fpc, anaVars>>
             ELSE /\ CallAnalyze(ValidFiles(fl)[1])
                  /\ fidx' = 1
                  /\ analyzeLog' = <<ValidFiles(fl)[1].file>>
                  /\ fpc' = "await_analyze"
                  /\ UNCHANGED <<processBtnDisabled, downloadBtnDisabled>>
    /\ imports' = imports + 1
    /\ importBase' = Len(images)
    /\ UNCHANGED <<batchVars, procVars, compVars, zipVars, resVars, valVars,
                   cbVars, exportVars, folderMap, isProcessing, canDownload,
                   appResults, spc, batches>>

\* processFileList, lines 500-519: analyze has settled; the record is kept
\* (or the failure logged), then the next turn of the loop up to its call of
\* analyze, or the end of the loop and updateButtons
ImportContinue ==
    /\ fpc = "await_analyze"
    /\ apc = "settled"
    /\ LET kept == aout.kind = "fulfilled"
           info == AppImage(aout.value, validFiles[fidx].folderPath)
           imgs == IF kept THEN Append(images, info) ELSE images
       IN /\ images' = imgs
          /\ IF kept
             THEN /\ folderMap' = Grouped(folderMap, info.folderPath, Len(imgs))
                  /\ statusOf' = Append(statusOf, info.status)
             ELSE UNCHANGED <<folderMap, statusOf>>
          /\ IF fidx < Len(validFiles)
             THEN /\ CallAnalyze(validFiles[fidx + 1])
                  /\ fidx' = fidx + 1
                  /\ analyzeLog' = Append(analyzeLog, validFiles[fidx + 1].file)
                  /\ UNCHANGED <<fpc, processBtnDisabled, downloadBtnDisabled>>
             ELSE /\ UpdateButtons(imgs, isProcessing, canDownload)
                  /\ fpc' = "idle"
                  /\ apc' = "idle"
                  /\ UNCHANGED <<afile, aimg, aout, urls, urlCount, aurl,
                                 fidx, analyzeLog>>
    /\ UNCHANGED <<userConfig, results, total, i, bpc, returned, log, views,
                   procVars, compVars, zipVars, resVars, valVars,
                   resultsByFolder, progressText, resultFolder, exportVars,
                   fileList, validFiles, imports, importBase, isProcessing,
                   canDownload, appResults, spc, batches>>

\* getUserConfig, lines 407-421: the value of the format select and the
\* number parsed from the size input (0 when it is empty or not a number)
GetUserConfig(selected, parsed) ==
    [format |-> selected,
     maxSizeKB |-> IF parsed # 0 THEN parsed ELSE 800,
     extension |-> IF selected = "image/png" THEN <<".", "p", "n", "g">>
                   ELSE IF selected = "image/webp"
                        THEN <<".", "w", "e", "b", "p">>
                   ELSE IF selected = "image/avif"
                        THEN <<".", "a", "v", "i", "f">>
                   ELSE <<".", "j", "p", "g">>]

\* startProcessing without line 601: canDownload keeps its value
StartProcessingKeepsDownload(formats, sizes) ==
    /\ Quiescent
    /\ ~processBtnDisabled
    /\ spc = "idle"
    /\ batches < MaxBatches
    /\ isProcessing' = TRUE
    /\ resultsByFolder' = <<>>
    /\ UpdateButtons(images, TRUE, canDownload)
    /\ \E selected \in formats, parsed \in sizes :
          userConfig' = GetUserConfig(selected, parsed)
    /\ statusOf' = [k \in 1..Len(statusOf) |->
                       IF images[k].needsProcessing THEN "processing"
                       ELSE statusOf[k]]
    /\ results' = <<>>
    /\ resultFolder' = <<>>
    /\ total' = Len(images)
    /\ i' = 0
    /\ bpc' = "loop"
    /\ returned' = <<>>
    /\ log' = <<>>
    /\ views' = <<>>
    /\ spc' = "await_processAll"
    /\ batches' = batches + 1
    /\ UNCHANGED <<images, procVars, compVars, zipVars, anaVars, resVars,
                   valVars, progressText, appResults, importVars, exportVars,
                   canDownload>>

\* startProcessing, lines 599-617, and processAll, lines 246-248: from the
\* click on the process button to the first test of the loop
StartProcessing(formats, sizes) ==
    /\ Quiescent
    /\ ~processBtnDisabled
    /\ spc = "idle"
    /\ batches < MaxBatches
    /\ isProcessing' = TRUE
    /\ canDownload' = FALSE
    /\ resultsByFolder' = <<>>
    /\ UpdateButtons(images, TRUE, FALSE)
    /\ \E selected \in formats, parsed \in sizes :
          userConfig' = GetUserConfig(selected, parsed)
    /\ statusOf' = [k \in 1..Len(statusOf) |->
                       IF images[k].needsProcessing THEN "processing"
                       ELSE statusOf[k]]
    /\ results' = <<>>
    /\ resultFolder' = <<>>
    /\ total' = Len(images)
    /\ i' = 0
    /\ bpc' = "loop"
    /\ returned' = <<>>
    /\ log' = <<>>
    /\ views' = <<>>
    /\ spc' = "await_processAll"
    /\ batches' = batches + 1
    /\ UNCHANGED <<images, procVars, compVars, zipVars, anaVars, resVars,
                   valVars, progressText, appResults, importVars, exportVars>>

\* the onProgress callback of startProcessing, lines 617-640, called with a
\* progress object whose results property is the array rs
OnProgress(progress, rs) ==
    /\ progressText' = <<progress.completed, progress.total>>
    /\ IF progress.completed > 0
       THEN LET k == progress.completed
                folderPath == images[k].folderPath
            IN /\ resultsByFolder' = Grouped(resultsByFolder, folderPath, k)
               /\ resultFolder' =
                     IF k > Len(resultFolder)
                     THEN Append(resultFolder, folderPath)
                     ELSE [resultFolder EXCEPT ![k] = folderPath]
               /\ statusOf' =
                     IF Truthy(rs[k].error)
                     THEN [statusOf EXCEPT ![k] = "error"]
                     ELSE IF rs[k].wasProcessed
                          THEN [statusOf EXCEPT ![k] = "completed"]
                          ELSE statusOf
       ELSE UNCHANGED <<resultsByFolder, resultFolder, statusOf>>

\* startProcessing, lines 617-644, without line 642: isProcessing stays true
BatchReturnBusy ==
    /\ spc = "await_processAll"
    /\ bpc = "done"
    /\ appResults' = returned
    /\ canDownload' = TRUE
    /\ UpdateButtons(images, TRUE, TRUE)
    /\ spc' = "idle"
    /\ bpc' = "none"
    /\ UNCHANGED <<images, userConfig, results, total, i, returned, log, views,
                   procVars, compVars, zipVars, anaVars, resVars, valVars,
                   cbVars, batches, importVars, exportVars, isProcessing>>

\* startProcessing, lines 617 and 642-644: processAll has returned
BatchReturn ==
    /\ spc = "await_processAll"
    /\ bpc = "done"
    /\ appResults' = returned
    /\ isProcessing' = FALSE
    /\ canDownload' = TRUE
    /\ UpdateButtons(images, FALSE, TRUE)
    /\ spc' = "idle"
    /\ bpc' = "none"
    /\ UNCHANGED <<images, userConfig, results, total, i, returned, log, views,
                   procVars, compVars, zipVars, anaVars, resVars, valVars,
                   cbVars, batches, importVars, exportVars>>

\* the results of the groups, read from the results array
Dereferenced(groups, rs) ==
    [n \in 1..Len(groups) |->
        Group(groups[n].folderName,
              [k \in 1..Len(groups[n].results) |-> rs[groups[n].results[k]]])]

\* downloadZip, lines 647-653: from the click on the download button to the
\* call of createZipWithFolders(AppState.resultsByFolder)
DownloadZip ==
    /\ Quiescent
    /\ ~downloadBtnDisabled
    /\ dpc = "idle"
    /\ downloads + alerts < MaxDownloads
    /\ zfn' = "createZipWithFolders"
    /\ zin' = Dereferenced(resultsByFolder, results)
    /\ zpc' = "entry"
    /\ zipFolders' = {}
    /\ zipFiles' = <<>>
    /\ dpc' = "await_zip"
    /\ UNCHANGED <<batchVars, procVars, compVars, anaVars, resVars, valVars,
                   cbVars, flagVars, importVars, alerts, downloads>>

\* downloadZip, lines 653-658, clearing canDownload in the catch block
DownloadSettledReset ==
    /\ dpc = "await_zip"
    /\ zpc \in {"done", "failed"}
    /\ IF zpc = "done"
       THEN downloads' = downloads + 1 /\ UNCHANGED <<alerts, canDownload>>
       ELSE alerts' = alerts + 1 /\ canDownload' = FALSE /\ UNCHANGED downloads
    /\ dpc' = "idle"
    /\ zpc' = "idle"
    /\ UNCHANGED <<batchVars, procVars, compVars, anaVars, resVars, valVars,
                   cbVars, isProcessing, appResults, processBtnDisabled,
                   downloadBtnDisabled, spc, batches, importVars, zfn, zin,
                   zipFolders, zipFiles>>

\* downloadZip, lines 653-658: createZipWithFolders has settled; the archive
\* is handed to ZipExporter.download, or the failure is caught and alerted
DownloadSettled ==
    /\ dpc = "await_zip"
    /\ zpc \in {"done", "failed"}
    /\ IF zpc = "done"
       THEN downloads' = downloads + 1 /\ UNCHANGED alerts
       ELSE alerts' = alerts + 1 /\ UNCHANGED downloads
    /\ dpc' = "idle"
    /\ zpc' = "idle"
    /\ UNCHANGED <<batchVars, procVars, compVars, anaVars, resVars, valVars,
                   cbVars, flagVars, importVars, zfn, zin, zipFolders,
                   zipFiles>>

\* the files dropped: two images in two folders, a text file and a file of
\* image type whose bytes are no image
EntryPool ==
    {Entry(File(<<"a", ".", "j", "p", "g">>, JPEG, 1000), <<"x">>,
           Decoded(750, 500)),
     Entry(File(<<"b", ".", "p", "n", "g">>, PNG, 3000), <<"y">>,
           Decoded(1500, 1000)),
     Entry(File(<<"n", ".", "t", "x", "t">>, "text/plain", 10), <<"x">>,
           Undecodable),
     Entry(File(<<"c", ".", "j", "p", "g">>, JPEG, 20), <<"y">>, Undecodable)}
MaxFiles == 3
FileLists == SeqsUpTo(EntryPool, MaxFiles) \ {<<>>}
\* files dropped one at a time
SingleFiles == {<<e>> : e \in EntryPool}

\* the settings of the page and the encoders of the canvases
AppFormats == {JPEG, PNG}
AppSizes == {1}
AppEncoders ==
    {e \in LinearEncoders : e.base \in {1500, 30000} /\ e.nullAt = NoQuality}

InitApp ==
    /\ PipelineIdle
    /\ ZipIdle
    /\ AnalyzeIdle
    /\ ResizeIdle
    /\ ValidateIdle
    /\ AppIdle

notBatchCall == <<zipVars, anaVars, resVars, valVars, flagVars, importVars,
                  exportVars>>

\* the steps of a running batch: the continuations of processAll, process and
\* compress, the load or failure of the image, the callbacks of toBlob, and
\* the return to startProcessing
BatchStep ==
    \/ LoopItem /\ OnProgress(ProgressBefore(i), results)
                /\ UNCHANGED notBatchCall
    \/ LoopExit /\ UNCHANGED notPipeline
    \/ AfterItem /\ OnProgress(ProgressAfter(i), results')
                 /\ UNCHANGED notBatchCall
    \/ ProcessEnter /\ UNCHANGED notPipeline
    \/ Quiescent /\ ImageError /\ UNCHANGED notPipeline
    \/ Quiescent /\ ImageLoadWith(AppEncoders) /\ UNCHANGED notPipeline
    \/ ProcessFinish /\ UNCHANGED notPipeline
    \/ CompressEnter /\ UNCHANGED <<batchVars, ppc, outcome, notPipeline>>
    \/ Quiescent /\ CompressPng
                 /\ UNCHANGED <<batchVars, ppc, outcome, notPipeline>>
    \/ Quiescent /\ CompressFirst
                 /\ UNCHANGED <<batchVars, ppc, outcome, notPipeline>>
    \/ Quiescent /\ CompressRound
                 /\ UNCHANGED <<batchVars, ppc, outcome, notPipeline>>
    \/ Quiescent /\ CompressFloor
                 /\ UNCHANGED <<batchVars, ppc, outcome, notPipeline>>
    \/ BatchReturn

\* the continuations of the import and of the export: they run as soon as the
\* handler that is running has reached its await
Continuation ==
    \/ AnalyzeEnter /\ UNCHANGED notAnalyze
    \/ ImportContinue
    \/ CreateZipWithFolders /\ UNCHANGED notZip
    \/ DownloadSettled

NextApp ==
    \/ ImportStart(SingleFiles)
    \/ Quiescent /\ AnalyzeOnload /\ UNCHANGED notAnalyze
    \/ Quiescent /\ AnalyzeOnerror /\ UNCHANGED notAnalyze
    \/ StartProcessing(AppFormats, AppSizes)
    \/ DownloadZip
    \/ Quiescent /\ ZipGenerated /\ UNCHANGED notZip
    \/ Quiescent /\ ZipFailed /\ UNCHANGED notZip
    \/ BatchStep
    \/ Continuation

SpecApp == InitApp /\ [][NextApp]_vars

\* the event loop runs every continuation that is ready, and every decode and
\* every encoding started by the batch ends
SpecAppFair == SpecApp /\ WF_vars(BatchStep) /\ WF_vars(Continuation)

\* the imports alone: files are dropped, no batch is started and nothing is
\* exported
NextImport ==
    \/ ImportStart(FileLists)
    \/ AnalyzeEnter /\ UNCHANGED notAnalyze
    \/ AnalyzeOnload /\ UNCHANGED notAnalyze
    \/ AnalyzeOnerror /\ UNCHANGED notAnalyze
    \/ ImportContinue

SpecImport == InitApp /\ [][NextImport]_vars

----------------------------------------------------------------------------
(* Properties of processAll (checked under SpecBatch) *)

IsEmit(e) == e.kind = "emit"
Emissions == SelectSeq(log, IsEmit)
SettledFailed(idx) ==
    \E n \in 1..Len(log) :
        log[n].kind = "settle" /\ log[n].index = idx /\ log[n].failed
StartedItem(idx) ==
    \E n \in 1..Len(log) : log[n].kind = "start" /\ log[n].index = idx
IsSentinel(r) == r.processedBlob.isNull /\ ~r.wasProcessed

\* C1: when processAll returns, the returned array has exactly one result per
\* input item, in input order: its length is the number of items, result j
\* belongs to item j, and it is a failure sentinel exactly when the pipeline
\* of item j failed.
C1_OneResultPerItemInOrder ==
    bpc = "done" =>
        /\ Len(returned) = Len(images)
        /\ \A j \in 1..Len(images) :
              /\ returned[j].originalFile = images[j].file
              /\ returned[j].processedBlob.isNull <=> SettledFailed(j - 1)

C1_Witness ==
    /\ bpc = "done"
    /\ Len(returned) = 2
    /\ images[1] # images[2]
    /\ returned[1].processedBlob.isNull
    /\ ~returned[2].processedBlob.isNull

\* C2: a finished batch of N items has made exactly 2N progress emissions:
\* for each item j, in index order, {completed: j, total: N, current: label j}
\* before its pipeline starts and {completed: j+1, total: N, current: label j}
\* after it has settled, with success or failure; and every emission made so
\* far reports total = N.
C2_TwoEmissionsPerItem ==
    /\ \A n \in 1..Len(Emissions) : Emissions[n].total = Len(images)
    /\ bpc = "done" =>
          /\ Len(Emissions) = 2 * Len(images)
          /\ Len(log) = 4 * Len(images)
          /\ \A j \in 0..(Len(images) - 1) :
                /\ log[4 * j + 1] = [kind |-> "emit", total |-> Len(images),
                                     completed |-> j,
                                     current |-> images[j + 1].file.name,
                                     index |-> 0, failed |-> FALSE]
                /\ log[4 * j + 2] = Started(j)
                /\ log[4 * j + 3].kind = "settle"
                /\ log[4 * j + 3].index = j
                /\ log[4 * j + 4] = [kind |-> "emit", total |-> Len(images),
                                     completed |-> j + 1,
                                     current |-> images[j + 1].file.name,
                                     index |-> 0, failed |-> FALSE]

C2_Witness ==
    /\ bpc = "done"
    /\ Len(images) = 2
    /\ Len(Emissions) = 4
    /\ SettledFailed(0)
    /\ ~SettledFailed(1)
    /\ images[1].file.name # images[2].file.name

\* C3: across the emissions of one batch the completed count never decreases;
\* when a batch of N >= 1 items has finished, every value from 0 to N has
\* been reported and the last emission has completed = total = N.
C3_CompletedMonotoneToTotal ==
    /\ \A m, n \in 1..Len(Emissions) :
          m <= n => Emissions[m].completed <= Emissions[n].completed
    /\ (bpc = "done" /\ Len(images) >= 1) =>
          /\ {Emissions[n].completed : n \in 1..Len(Emissions)} = 0..Len(images)
          /\ Emissions[Len(Emissions)].completed = Len(images)
          /\ Emissions[Len(Emissions)].total = Len(images)

C3_Witness ==
    /\ bpc = "done"
    /\ Len(images) = 2
    /\ Emissions[Len(Emissions)].completed = 2
    /\ Emissions[1].completed = 0

\* C4: a failure of the pipeline of item j does not end the batch: the batch
\* is only ever in its loop, waiting for an item or done; once item j has
\* failed, position j of the results holds a failure sentinel for item j
\* (null bytes, wasProcessed = false); and a finished batch has started the
\* pipeline of every item, those after a failed one included.
C4_FailureIsolated ==
    /\ bpc \in {"loop", "await_process", "done"}
    /\ \A j \in 0..(Len(images) - 1) :
          SettledFailed(j) =>
              /\ Len(results) > j
              /\ IsSentinel(results[j + 1])
              /\ results[j + 1].originalFile = images[j + 1].file
    /\ bpc = "done" =>
          /\ Len(returned) = Len(images)
          /\ \A j \in 0..(Len(images) - 1) : StartedItem(j)

C4_Witness ==
    /\ bpc = "done"
    /\ Len(images) = 2
    /\ SettledFailed(0)
    /\ IsSentinel(returned[1])
    /\ StartedItem(1)
    /\ returned[2].wasProcessed

\* C5: every failure sentinel in the results has a defined, non-empty failure
\* reason.
C5_SentinelHasReason ==
    \A j \in 1..Len(results) :
        results[j].processedBlob.isNull => Truthy(results[j].error)

----------------------------------------------------------------------------
(* Properties of compress (checked under SpecCompress) *)

\* the encode of this canvas at the floor quality fits the budget
FloorEncodeFits ==
    \A b \in ToBlob(canvas.enc, format, FloorQuality) :
        ~b.isNull /\ b.size <= MaxSizeBytes

\* C6: whenever the encode at the floor quality 0.1 fits the budget, the blob
\* compress returns has size <= budget, whatever the other encodes gave.
C6_FloorFitsThenResultFits ==
    (cpc = "returned" /\ FloorEncodeFits) =>
        (~retBlob.isNull /\ retBlob.size <= MaxSizeBytes)

\* the floor encode fits and was needed: the first encode and all rounds exceeded
C6_Witness ==
    /\ cpc = "returned"
    /\ FloorEncodeFits
    /\ Len(encodes) = SearchRounds + 2
    /\ retBlob.size <= MaxSizeBytes

\* C7: for a lossy format, when the quality-1.0 encode (the value bestBlob
\* takes on leaving the first suspension point) fits the budget, compress
\* returns exactly that blob and has invoked the encoder exactly once.
C7_FirstEncodeFitsReturned ==
    [][(cpc = "await_first" /\ ~bestBlob'.isNull /\ bestBlob'.size <= MaxSizeBytes)
        => (/\ cpc' = "returned"
            /\ retBlob' = bestBlob'
            /\ encodes' = <<TopQuality>>)]_vars

C7_Witness ==
    /\ cpc = "returned"
    /\ format # PNG
    /\ encodes = <<TopQuality>>
    /\ retBlob = bestBlob
    /\ retBlob.size = MaxSizeBytes

\* C8: for a lossy format, when the 10 rounds are over and none fitted
\* (minQuality is still the floor after a first encode that did not fit),
\* compress makes one more encode, at the floor quality 0.1, and returns what
\* that encode gives even if it exceeds the budget; and compress has thrown
\* only when the encoder can give no blob at the quality it last asked for.
C8_FloorFallback ==
    /\ (round = SearchRounds /\ minQuality = FloorQuality /\ cpc # "threw") =>
          /\ cpc \in {"await_floor", "returned", "idle"}
          /\ Len(encodes) = SearchRounds + 2
          /\ encodes[SearchRounds + 2] = FloorQuality
    /\ cpc = "await_floor" => request = FloorQuality
    /\ (cpc = "returned" /\ Len(encodes) = SearchRounds + 2) =>
          /\ retBlob = bestBlob
          /\ retBlob \in ToBlob(canvas.enc, format, FloorQuality)
    /\ cpc = "threw" => NullBlob \in ToBlob(canvas.enc, format, request)

C8_Witness ==
    /\ cpc = "returned"
    /\ Len(encodes) = SearchRounds + 2
    /\ ~retBlob.isNull
    /\ retBlob.size > MaxSizeBytes

\* C9: compress never returns after an encoder invocation that gave no blob:
\* a call that has returned returns a blob.
C9_NullBlobAlwaysThrows ==
    cpc = "returned" => ~retBlob.isNull

\* C10: for image/png compress invokes the encoder exactly once, without a
\* quality argument, and returns what that encode gives; it never enters the
\* search, and the result is fixed by the canvas alone, not by the budget.
C10_LosslessSingleEncode ==
    format = PNG =>
        /\ cpc \in {"entry", "await_png", "returned", "idle"}
        /\ cpc = "returned" =>
              /\ encodes = <<NoQuality>>
              /\ retBlob \in ToBlob(canvas.enc, PNG, NoQuality)

C10_Witness ==
    /\ format = PNG
    /\ cpc = "returned"
    /\ encodes = <<NoQuality>>
    /\ ~retBlob.isNull
    /\ retBlob.size > MaxSizeBytes

\* the encode of this canvas at quality q gives a blob that fits the budget
EncodeFitsAt(q) ==
    \E b \in ToBlob(canvas.enc, format, q) : ~b.isNull /\ b.size <= MaxSizeBytes

\* C11: for a lossy format whose quality-1.0 encode exceeds the budget, the
\* search ends only after round 10 (or by the throw on an encode that gave no
\* blob): a call that returns from the search has made exactly 10 rounds and
\* 11 or 12 encoder invocations; round k waits for exactly one invocation, at
\* (minQuality + maxQuality) / 2; a round that does not throw raises
\* minQuality to that quality when the encode fits and lowers maxQuality to
\* it otherwise; compress never makes more than 12 encoder invocations.
C11_RoundState ==
    /\ Len(encodes) <= 12
    /\ cpc = "await_round" =>
          /\ round < 10
          /\ Len(encodes) = round + 2
          /\ 2 * request = minQuality + maxQuality
          /\ encodes[Len(encodes)] = request
    /\ (cpc = "returned" /\ Len(encodes) >= 2) =>
          /\ round = 10
          /\ Len(encodes) \in {11, 12}
    /\ cpc = "await_floor" => (round = 10 /\ Len(encodes) = 12)

C11_RoundStep ==
    (cpc = "await_round" /\ cpc' # "threw") =>
        /\ round' = round + 1
        /\ \/ minQuality' = request /\ maxQuality' = maxQuality
           \/ minQuality' = minQuality /\ maxQuality' = request
        /\ canvas.enc.kind = "linear" =>
              (minQuality' = request <=> EncodeFitsAt(request))
        /\ minQuality' = request =>
              (~bestBlob'.isNull /\ bestBlob'.size <= MaxSizeBytes)

C11_TenRounds == []C11_RoundState /\ [][C11_RoundStep]_vars

C11_Witness ==
    /\ cpc = "returned"
    /\ round = 10
    /\ Len(encodes) = 11
    /\ minQuality > FloorQuality
    /\ maxQuality < TopQuality

\* the distance between minQuality and maxQuality after 10 rounds: 0.9 / 1024
Resolution == (TopQuality - FloorQuality) \div 1024

\* C12: under a monotonic encoder (the proportional one), when some round of
\* the search fitted, compress returns the encode at minQuality, which is the
\* highest quality it probed whose encode fits; that encode fits and the
\* encode at minQuality + 0.9/1024 does not.
C12_HighestFittingQuality ==
    (/\ canvas.enc.kind = "linear"
     /\ format # PNG
     /\ cpc = "returned"
     /\ Len(encodes) = 11) =>
        /\ retBlob \in ToBlob(canvas.enc, format, minQuality)
        /\ ~retBlob.isNull
        /\ retBlob.size <= MaxSizeBytes
        /\ \A n \in 1..Len(encodes) :
              EncodeFitsAt(encodes[n]) => encodes[n] <= minQuality
        /\ ~EncodeFitsAt(minQuality + Resolution)

C12_Witness ==
    /\ canvas.enc.kind = "linear"
    /\ cpc = "returned"
    /\ Len(encodes) = 11
    /\ minQuality > FloorQuality
    /\ minQuality + Resolution < TopQuality
    /\ retBlob.size <= MaxSizeBytes

----------------------------------------------------------------------------
(* Properties of the exporter (checked under SpecZip) *)

ZipBuilt == zpc \in {"await_generate", "done", "failed"}

HasBytes(r) == ~r.processedBlob.isNull

\* the groups without their results that have null bytes
WithoutNull(groups) ==
    [n \in 1..Len(groups) |->
        Group(groups[n].folderName, SelectSeq(groups[n].results, HasBytes))]

FolderEntries(folderName) == {p \in DOMAIN zipFiles : p[1] = folderName}

\* C13: a result with null bytes contributes no entry, in createZip and in
\* createZipWithFolders alike: every entry of the archive holds the non-null
\* bytes of a result of its folder's group under that result's entry name,
\* the archive is the one built from the groups with the null results taken
\* out, and the exporter reaches generateAsync whatever null results it is
\* given.
C13_NullBytesSkipped ==
    /\ zpc # "entry" => ZipBuilt
    /\ ZipBuilt =>
          /\ \A p \in DOMAIN zipFiles :
                /\ ~zipFiles[p].isNull
                /\ \E n \in 1..Len(zin) : \E k \in 1..Len(zin[n].results) :
                      /\ p = <<zin[n].folderName, EntryName(zin[n].results[k])>>
                      /\ zipFiles[p] = zin[n].results[k].processedBlob
          /\ zipFiles = AddGroups(<<>>, WithoutNull(zin), 1)

C13_Witness ==
    /\ zpc = "done"
    /\ zfn = "createZipWithFolders"
    /\ Len(zin) = 2
    /\ \E k \in 1..Len(zin[1].results) : ~HasBytes(zin[1].results[k])
    /\ \E k \in 1..Len(zin[2].results) : HasBytes(zin[2].results[k])
    /\ Cardinality(DOMAIN zipFiles) = 1

\* C14: the folder of every group holds exactly one entry per result of the
\* group that has bytes: as many entries as such results, each under the
\* result's output name, or the original file name when there is none.
C14_OneEntryPerResult ==
    ZipBuilt =>
        \A n \in 1..Len(zin) :
            /\ Cardinality(FolderEntries(zin[n].folderName))
                  = Len(SelectSeq(zin[n].results, HasBytes))
            /\ \A k \in 1..Len(zin[n].results) :
                  HasBytes(zin[n].results[k]) =>
                      <<zin[n].folderName, EntryName(zin[n].results[k])>>
                          \in DOMAIN zipFiles

----------------------------------------------------------------------------
(* Properties of process inside a batch (checked under SpecBatch) *)

\* the image whose pipeline is running, and the batch configuration with the
\* defaults of CONFIG filled in
Current == images[i + 1]
DesiredFormat == IF userConfig.format = "" THEN "image/jpeg" ELSE userConfig.format
BudgetBytes ==
    (IF userConfig.maxSizeKB = 0 THEN 800 ELSE userConfig.maxSizeKB) * 1024
TargetExtension ==
    IF userConfig.extension = <<>> THEN <<".", "j", "p", "g">>
    ELSE userConfig.extension

\* needsProcessing is false, the declared type is the desired output format
\* and the byte size is within the budget
SkipCase ==
    /\ Current.needsProcessing = FALSE
    /\ Current.file.type = DesiredFormat
    /\ Current.size <= BudgetBytes

C15_Settled ==
    (ppc = "settled" /\ outcome.kind = "fulfilled") =>
        IF SkipCase
        THEN /\ ~outcome.value.wasProcessed
             /\ outcome.value.processedBlob = Blob(Current.file.size)
        ELSE /\ outcome.value.wasProcessed
             /\ canvas.width = 750
             /\ Len(encodes) >= 1
             /\ outcome.value.processedBlob = retBlob

C15_Entry ==
    ppc = "entry" =>
        IF SkipCase
        THEN /\ ppc' = "settled"
             /\ outcome'.kind = "fulfilled"
             /\ UNCHANGED <<canvas, compVars>>
        ELSE ppc' = "await_load"

\* C15: process takes the skip-fast path exactly when needsProcessing is
\* false, the declared type equals the desired output format and the byte
\* size is within the budget: it then settles at once, without loading the
\* image, making a canvas or calling the encoder, with the original bytes and
\* wasProcessed = false; in every other case it loads the image, and a result
\* it then gives comes from a resized canvas and an encode and has
\* wasProcessed = true.
C15_SkipFastExactly == []C15_Settled /\ [][C15_Entry]_vars

C15_Witness ==
    /\ ppc = "settled"
    /\ outcome.kind = "fulfilled"
    /\ ~Current.needsProcessing
    /\ Current.file.type = DesiredFormat
    /\ Current.size > BudgetBytes
    /\ outcome.value.wasProcessed

LastDot(name) ==
    IF \A n \in 1..Len(name) : name[n] # "." THEN 0
    ELSE CHOOSE n \in 1..Len(name) :
            name[n] = "." /\ \A m \in (n + 1)..Len(name) : name[m] # "."

\* the original name up to its last dot (the whole name when it has no dot)
UpToLastDot(name) ==
    IF LastDot(name) = 0 THEN name ELSE SubSeq(name, 1, LastDot(name) - 1)

\* C16 as claimed: every successful result, on the skip-fast path too, is
\* named by the original name up to its last dot followed by the target
\* extension.
C16_NameIsBasePlusExtension ==
    \A j \in 1..Len(results) :
        ~results[j].processedBlob.isNull =>
            results[j].outputFileName
                = UpToLastDot(results[j].originalFile.name) \o TargetExtension

\* C16 amended: a result with wasProcessed = true is named by the original
\* name up to its last dot, or by the whole original name when nothing stands
\* before its last dot, followed by the target extension; a result of the
\* skip-fast path keeps the original file name.
C16_NameOfProcessedAndSkipped ==
    \A j \in 1..Len(results) :
        ~results[j].processedBlob.isNull =>
            IF results[j].wasProcessed
            THEN results[j].outputFileName
                   = (IF LastDot(results[j].originalFile.name) <= 1
                      THEN results[j].originalFile.name
                      ELSE UpToLastDot(results[j].originalFile.name))
                     \o TargetExtension
            ELSE results[j].outputFileName = results[j].originalFile.name

C16_Witness ==
    /\ Len(results) = 2
    /\ results[1].wasProcessed
    /\ LastDot(results[1].originalFile.name) = 1
    /\ ~results[2].processedBlob.isNull
    /\ ~results[2].wasProcessed
    /\ results[2].outputFileName # UpToLastDot(results[2].originalFile.name)
                                     \o TargetExtension

\* C17 as claimed: every result with wasProcessed = true has a final size of
\* at most the byte budget.
C17_ProcessedWithinBudget ==
    \A j \in 1..Len(results) :
        results[j].wasProcessed => results[j].finalSize <= BudgetBytes

CountKind(kind) == Len(SelectSeq(log, LAMBDA e : e.kind = kind))
InFlight == CountKind("start") - CountKind("settle")
EncoderWaiting == cpc \in {"await_png", "await_first", "await_round", "await_floor"}

\* C18: items are processed one after the other: at most one pipeline is in
\* flight (started and not yet settled) at any moment; process and the
\* encoder are only ever at work for that one pipeline; and when the pipeline
\* of item j > 0 starts, item j - 1 has settled, its result is in the results
\* and its after-item emission has been made.
C18_StrictlySequential ==
    /\ InFlight \in {0, 1}
    /\ ppc \in {"entry", "await_load", "await_compress"} =>
          (bpc = "await_process" /\ InFlight = 1)
    /\ (EncoderWaiting \/ cpc = "entry") => ppc = "await_compress"
    /\ InFlight = 1 => Len(results) = i
    /\ \A p \in 1..Len(log) :
          (log[p].kind = "start" /\ log[p].index > 0) =>
              /\ Len(results) >= log[p].index
              /\ \E q \in 1..(p - 1) : \E r \in (q + 1)..(p - 1) :
                    /\ log[q].kind = "settle"
                    /\ log[q].index = log[p].index - 1
                    /\ log[r].kind = "emit"
                    /\ log[r].completed = log[p].index
                    /\ log[r].current = images[log[p].index].file.name

C18_Witness ==
    /\ bpc = "await_process"
    /\ i = 1
    /\ cpc = "await_round"
    /\ round = 3
    /\ Len(results) = 1

\* C19: the results view delivered with an emission is a snapshot: what every
\* emission made so far delivered (the results array) is still what it was
\* when that emission was made.
C19_ViewsAreSnapshots ==
    \A n \in 1..Len(views) : views[n] = results

----------------------------------------------------------------------------
(* Properties of resize (checked under SpecResize) *)

\* h * 750 / w rounded to the nearest integer, a half going up
RoundedQuotient(h, w) == (2 * h * 750 + w) \div (2 * w)

\* C22: for every intrinsic size (w, h) with w > 0, resize gives a canvas of
\* width exactly 750 and of height round(h * 750 / w), a half rounded up,
\* with no clamp to the height 750; an image 750 wide keeps its dimensions.
C22_WidthFixedHeightRounded ==
    rpc = "returned" =>
        /\ canvas.width = 750
        /\ canvas.height = RoundedQuotient(rimage.naturalHeight,
                                           rimage.naturalWidth)
        /\ rimage.naturalWidth = 750 =>
              canvas.height = rimage.naturalHeight

\* C23: for every intrinsic size (w, h) with 0.25 <= w / h <= 4, the relative
\* error |w / h - 750 / newHeight| / (w / h) is below 0.01, that is
\* 100 * |newHeight * w - 750 * h| < newHeight * w.
C23_RatioKept ==
    (/\ rpc = "returned"
     /\ rimage.naturalHeight <= 4 * rimage.naturalWidth
     /\ rimage.naturalWidth <= 4 * rimage.naturalHeight) =>
        LET scaled == canvas.height * rimage.naturalWidth
            exact == 750 * rimage.naturalHeight
        IN /\ canvas.height > 0
           /\ 100 * (IF scaled > exact THEN scaled - exact ELSE exact - scaled)
                < scaled

\* a portrait image at the edge of the ratio range, higher than 750 after
\* the resize
C23_Witness ==
    /\ rpc = "returned"
    /\ rimage.naturalWidth = 188
    /\ rimage.naturalHeight = 750
    /\ canvas.height = 2992

----------------------------------------------------------------------------
(* Properties of isValidImageFile (checked under SpecValidate) *)

----------------------------------------------------------------------------
(* The preview URL of analyze (checked under SpecAnalyze) *)

\* C24: when analyze settles with a failure, the object URL it created for
\* the file has been revoked; when it settles with a record, the URL is still
\* live and is the previewUrl of the record.
C24_PreviewReleasedOnFailure ==
    apc = "settled" =>
        /\ urlCount = 1
        /\ aout.kind = "rejected" => urls = {}
        /\ aout.kind = "fulfilled" =>
              /\ urls = {aout.value.previewUrl}
              /\ aout.value.previewUrl = urlCount

C24_Witness ==
    /\ apc = "settled"
    /\ aout.kind = "rejected"
    /\ ~aimg.decodable
    /\ urlCount = 1
    /\ urls = {}

----------------------------------------------------------------------------
(* compress under an encoder whose size grows with the quality (checked
   under SpecCompress) *)

\* C28: with an encoder whose size does not increase when the quality
\* decreases (the linear encoders), a blob returned by compress for a lossy
\* format is never larger than the encode at quality 1.0, also when no
\* quality brings the size within the budget.
C28_NeverLargerThanTopEncode ==
    (/\ cpc = "returned"
     /\ format # "image/png"
     /\ canvas.enc.kind = "linear"
     /\ ~retBlob.isNull) =>
        \A top \in ToBlob(canvas.enc, format, 10240) :
            /\ ~top.isNull
            /\ retBlob.size <= top.size

\* the floor encode was returned and exceeds the budget
C28_Witness ==
    /\ cpc = "returned"
    /\ format # "image/png"
    /\ canvas.enc.kind = "linear"
    /\ ~retBlob.isNull
    /\ Len(encodes) = 12
    /\ retBlob.size > maxSizeKB * 1024
    /\ \A top \in ToBlob(canvas.enc, format, 10240) : retBlob.size < top.size

----------------------------------------------------------------------------
(* Claims about the application *)

FilesOf(entries) == [n \in 1..Len(entries) |-> entries[n].file]
SupportedEntry(e) == e.file.type \in SupportedTypes
BatchOver == spc = "idle" /\ batches > 0

\* C25: during an import a file of unsupported type is excluded before
\* analysis: analyze is called on the files of supported type only, in their
\* order, and no file of unsupported type enters the image list; and when the
\* import is over, the images it added are the files of supported type whose
\* analysis succeeded, all of them, in their original order, whatever file
\* was rejected or failed before them.
C25_ImportFiltersAndContinues ==
    /\ LET supported == SelectSeq(fileList, SupportedEntry)
       IN /\ Len(analyzeLog) = fidx
          /\ fidx <= Len(supported)
          /\ \A n \in 1..fidx : analyzeLog[n] = supported[n].file
    /\ \A n \in 1..Len(images) : images[n].file.type \in SupportedTypes
    /\ (fpc = "idle" /\ imports > 0) =>
          [n \in 1..(Len(images) - importBase) |-> images[importBase + n].file]
             = FilesOf(SelectSeq(fileList,
                          LAMBDA e : SupportedEntry(e) /\ e.img.decodable))

\* an import of a text file, an undecodable file of image type and an image,
\* in that order, has added the image
C25_Witness ==
    /\ fpc = "idle"
    /\ Len(fileList) = 3
    /\ ~SupportedEntry(fileList[1])
    /\ SupportedEntry(fileList[2]) /\ ~fileList[2].img.decodable
    /\ SupportedEntry(fileList[3]) /\ fileList[3].img.decodable
    /\ analyzeLog = <<fileList[2].file, fileList[3].file>>
    /\ Len(images) = importBase + 1
    /\ images[Len(images)].file = fileList[3].file

\* C26: no step of the export (the click on the download button, the making
\* of the archive, its failure, the alert) changes the batch results, the
\* per-folder results, the download-enabled flag or the download button: after
\* a failed attempt the export can be tried again.
C26_FailedExportKeepsResults ==
    [][<<zipVars, exportVars>>' # <<zipVars, exportVars>> =>
          UNCHANGED <<results, returned, appResults, resultsByFolder,
                      resultFolder, canDownload, isProcessing,
                      downloadBtnDisabled>>]_vars

\* an export has failed and been alerted, and another has succeeded, on the
\* results of one batch
C26_Witness ==
    /\ dpc = "idle"
    /\ alerts = 1
    /\ downloads = 1
    /\ batches = 1
    /\ canDownload
    /\ ~downloadBtnDisabled
    /\ resultsByFolder # <<>>

\* C27: after a batch completes, every item whose result is a failure sentinel
\* has the error status, and download is enabled.
C27_FailuresFlaggedAndExportable ==
    BatchOver =>
        /\ canDownload
        /\ \A k \in 1..Len(appResults) :
              IsSentinel(appResults[k]) => statusOf[k] = "error"

\* C29: after a batch of N items completes, each of the N results is recorded
\* exactly once across the per-folder groups, in the group of its item's
\* folder.
C29_EachResultRecordedOnce ==
    BatchOver =>
        \A k \in 1..Len(appResults) :
           /\ Cardinality({p \in {<<g, n>> : g \in 1..Len(resultsByFolder),
                                              n \in 1..MaxImages * 2} :
                              /\ p[2] <= Len(resultsByFolder[p[1]].results)
                              /\ resultsByFolder[p[1]].results[p[2]] = k}) = 1
           /\ \A g \in 1..Len(resultsByFolder) :
                 (\E n \in 1..Len(resultsByFolder[g].results) :
                     resultsByFolder[g].results[n] = k)
                 => resultsByFolder[g].folderName = images[k].folderPath

\* C30: in every progress emission completed <= total, and the batch processes
\* exactly the images present when it started, even when images are imported
\* while it runs.
C30_BatchCoversImagesAtStart ==
    /\ \A n \in 1..Len(log) :
          log[n].kind = "emit" => log[n].completed <= log[n].total
    /\ bpc = "done" => Len(returned) = total

\* C31: download is never enabled while a batch runs: canDownload and
\* isProcessing are never both true, the download button is disabled while
\* isProcessing is true, and the step that starts a batch clears canDownload
\* while no item has been processed yet.
C31_NoDownloadWhileProcessing ==
    /\ [](~(canDownload /\ isProcessing))
    /\ [](isProcessing => downloadBtnDisabled)
    /\ [][(~isProcessing /\ isProcessing') =>
             /\ ~canDownload'
             /\ downloadBtnDisabled'
             /\ results' = <<>>
             /\ i' = 0
             /\ log' = <<>>]_vars

\* a second batch has just been started, after the first one had enabled
\* download
C31_Witness ==
    /\ batches = 2
    /\ isProcessing
    /\ bpc = "loop"
    /\ i = 0
    /\ results = <<>>
    /\ appResults # <<>>
    /\ ~canDownload
    /\ downloadBtnDisabled

\* C32: at most one run of the batch is active: while a run is active
\* isProcessing is true, and while isProcessing is true the process button is
\* disabled, also after an import has finished and refreshed the buttons
\* during the run; so the button can be clicked only when no run is active.
C32_OneRunAtATime ==
    /\ spc # "idle" => isProcessing
    /\ isProcessing => processBtnDisabled
    /\ ~processBtnDisabled => spc = "idle"

\* an import has finished, and refreshed the buttons, while the batch started
\* on one image is still running
C32_Witness ==
    /\ isProcessing
    /\ spc = "await_processAll"
    /\ total = 1
    /\ imports = 2
    /\ fpc = "idle"
    /\ Len(images) = 2
    /\ processBtnDisabled

\* C33: whenever canDownload is true, every image of the image list has a
\* result recorded in the per-folder results.
C33_DownloadCoversAllImages ==
    canDownload =>
        \A k \in 1..Len(images) :
           \E g \in 1..Len(resultsByFolder) :
              \E n \in 1..Len(resultsByFolder[g].results) :
                 resultsByFolder[g].results[n] = k

\* C34: once a batch is started, if every decode and every encoding ends, the
\* batch ends: isProcessing becomes false and canDownload true.
C34_BatchEventuallyFinishes ==
    isProcessing ~> (~isProcessing /\ canDownload /\ spc = "idle")

\* a batch of two images is over: processAll has returned both results
C34_Witness ==
    /\ BatchOver
    /\ ~isProcessing
    /\ canDownload
    /\ Len(appResults) = 2
    /\ bpc = "none"

----------------------------------------------------------------------------
(* Claims about the quality search and the width of the results *)

\* the search has begun: the encode at quality 1.0 did not fit and a first
\* midpoint has been requested
InSearch == format # PNG /\ Len(encodes) >= 2

FittingRounds ==
    {n \in 2..11 : \A b \in ToBlob(canvas.enc, format, encodes[n]) :
                      ~b.isNull /\ b.size <= maxSizeKB * 1024}

\* C36: after the 10 rounds, the floor encode is made if and only if no round
\* fit the budget, and then minQuality is still 0.1; otherwise the blob
\* returned is the encode of the last round that fit, made at the final
\* minQuality, and it fits the budget.
C36_FloorIffNoRoundFit ==
    (InSearch /\ round = 10 /\ cpc \in {"await_floor", "returned"}) =>
        /\ (cpc = "await_floor" \/ Len(encodes) = 12)
              <=> minQuality = FloorQuality
        /\ canvas.enc.kind = "linear" =>
              ((cpc = "await_floor" \/ Len(encodes) = 12)
                  <=> FittingRounds = {})
        /\ Len(encodes) = 12 => encodes[12] = FloorQuality
        /\ (cpc = "returned" /\ Len(encodes) = 11) =>
              /\ retBlob = bestBlob
              /\ ~retBlob.isNull
              /\ retBlob.size <= maxSizeKB * 1024
              /\ retBlob \in ToBlob(canvas.enc, format, minQuality)
              /\ canvas.enc.kind = "linear" =>
                    \E n \in FittingRounds :
                       /\ encodes[n] = minQuality
                       /\ \A m \in FittingRounds : m <= n

\* the search returns the encode of a round that fit, which is not the last
\* round
C36_Witness ==
    /\ cpc = "returned"
    /\ canvas.enc.kind = "linear"
    /\ Len(encodes) = 11
    /\ round = 10
    /\ encodes[11] > minQuality
    /\ \E n \in 2..10 : encodes[n] = minQuality
    /\ retBlob.size <= maxSizeKB * 1024

\* C37: for an image record whose needsProcessing field is the predicate
\* (width other than 750, or more than 800 x 1024 bytes), every result of
\* process that is no failure has finalWidth 750: a result of the skip path
\* belongs to an image 750 wide, and a processed result was resized to 750.
C37_SuccessfulResultsAre750Wide ==
    \A k \in 1..Len(results) :
       (/\ images[k].needsProcessing
              = (images[k].width # 750 \/ images[k].size > 819200)
        /\ ~IsSentinel(results[k])) =>
          /\ results[k].finalWidth = 750
          /\ results[k].wasProcessed \/ images[k].width = 750

\* a batch of an image 750 wide that was skipped and of an image 1500 wide
\* that was resized
C37_Witness ==
    /\ bpc = "done"
    /\ Len(results) = 2
    /\ ~IsSentinel(results[1])
    /\ ~results[1].wasProcessed
    /\ images[1].width = 750
    /\ results[2].wasProcessed
    /\ images[2].width = 1500
    /\ results[2].finalWidth = 750

====
